---- MODULE Spec2Model ----
(***************************************************************************)
(* Validation of people records (ospeople/models/people.py).               *)
(*                                                                         *)
(* A text value is a sequence of one-character strings, so that prefixes,  *)
(* splitting and regular-expression matching are computed on characters.   *)
(* A raw record is a function from the keys that were supplied to their    *)
(* values; a key that was not supplied is not in its DOMAIN.               *)
(* A validator returns either Return(v) or Raise(kind, msg).               *)
(***************************************************************************)
EXTENDS Naturals, Sequences, FiniteSets, TLC

VARIABLES schema, raw, pc, result

vars == <<schema, raw, pc, result>>

\* ------------------------------------------------------------------ bounds
MaxExtDigits == 2
MaxRoles == 1

\* ------------------------------------------------------------- characters
LF == "\n"
CR == "\r"
Digits == {"0", "1", "2", "3", "4", "5", "6", "7", "8", "9"}

Contains(s, c) == \E i \in 1..Len(s) : s[i] = c

\* the literal lit occurs in s at position i
HasAt(s, i, lit) ==
    /\ i >= 1
    /\ i + Len(lit) - 1 <= Len(s)
    /\ \A k \in 1..Len(lit) : s[i + k - 1] = lit[k]

\* str.startswith
StartsWith(s, prefix) == HasAt(s, 1, prefix)

\* n characters of s from position i are all digits (\d{n})
DigitsAt(s, i, n) ==
    /\ i >= 1
    /\ i + n - 1 <= Len(s)
    /\ \A k \in i..(i + n - 1) : s[k] \in Digits

\* ------------------------------------------------------ validator results
Return(v) == [exc |-> "none", val |-> v]
Raise(kind, msg) == [exc |-> kind, msg |-> msg]

\* ----------------------------------------------------- common validators
\* (ospeople/models/common.py is not part of the sources at hand)
validate_str_no_newline(val) ==
    IF Contains(val, LF) \/ Contains(val, CR)
    THEN Raise("ValueError", "must be a string without newline")
    ELSE Return(val)

\* a fuzzy date: "", YYYY, YYYY-MM or YYYY-MM-DD
validate_fuzzy_date(val) ==
    IF \/ Len(val) = 0
       \/ Len(val) = 4 /\ DigitsAt(val, 1, 4)
       \/ Len(val) = 7 /\ DigitsAt(val, 1, 4) /\ HasAt(val, 5, <<"-">>) /\ DigitsAt(val, 6, 2)
       \/ /\ Len(val) = 10
          /\ DigitsAt(val, 1, 4) /\ HasAt(val, 5, <<"-">>) /\ DigitsAt(val, 6, 2)
          /\ HasAt(val, 8, <<"-">>) /\ DigitsAt(val, 9, 2)
    THEN Return(val)
    ELSE Raise("ValueError", "invalid date")

\* identifiers are opaque: a value is a jurisdiction / person identifier when
\* it carries the identifier prefix
OcdJurisdictionPrefix == <<"o", "c", "d", "-", "j", "/">>
OcdPersonPrefix == <<"o", "c", "d", "-", "p", "/">>

validate_ocd_jurisdiction(val) ==
    IF StartsWith(val, OcdJurisdictionPrefix) /\ Len(val) > Len(OcdJurisdictionPrefix)
    THEN Return(val)
    ELSE Raise("ValueError", "invalid jurisdiction id")

validate_ocd_person(val) ==
    IF StartsWith(val, OcdPersonPrefix) /\ Len(val) > Len(OcdPersonPrefix)
    THEN Return(val)
    ELSE Raise("ValueError", "invalid person id")

\* ---------------------------------------------------------------- PHONE_RE
\* `$` (no re.MULTILINE): the end of the text, or just before a final newline
AtEnd(s, i) == i = Len(s) + 1 \/ (i = Len(s) /\ s[i] = LF)

\* `.` (no re.DOTALL): any character but a newline
AnyCharAt(s, i) == i >= 1 /\ i <= Len(s) /\ s[i] # LF

\* \d{3}-\d{3}-\d{4} at position i (12 characters)
PhoneCoreAt(s, i) ==
    /\ DigitsAt(s, i, 3)
    /\ HasAt(s, i + 3, <<"-">>)
    /\ DigitsAt(s, i + 4, 3)
    /\ HasAt(s, i + 7, <<"-">>)
    /\ DigitsAt(s, i + 8, 4)

\* the positions at which a match of ` ext. \d+` starting at j can end
PhoneExtEnds(s, j) ==
    { m \in (j + 6)..Len(s) :
        /\ HasAt(s, j, <<" ", "e", "x", "t">>)
        /\ AnyCharAt(s, j + 4)
        /\ HasAt(s, j + 5, <<" ">>)
        /\ DigitsAt(s, j + 6, m - (j + 6) + 1) }

\* PHONE_RE.match(s) is not None
PHONE_RE_match(s) ==
    \E i \in {1} \cup (IF HasAt(s, 1, <<"1", "-">>) THEN {3} ELSE {}) :
        /\ PhoneCoreAt(s, i)
        /\ \/ AtEnd(s, i + 12)
           \/ \E m \in PhoneExtEnds(s, i + 12) : AtEnd(s, m + 1)

validate_phone(val) ==
    IF ~PHONE_RE_match(val)
    THEN Raise("ValueError", "invalid phone number")
    ELSE Return(val)

\* ------------------------------------------------------------ enumerations
RoleType ==
    [ UPPER |-> "upper", LOWER |-> "lower", JOINT |-> "legislature",
      GOVERNOR |-> "governor", LT_GOVERNOR |-> "lt_governor", MAYOR |-> "mayor",
      SOS |-> "secretary of state",
      CHIEF_ELECTION_OFFICER |-> "chief election officer" ]

OfficeType ==
    [ DISTRICT |-> "District Office", CAPITOL |-> "Capitol Office",
      PRIMARY |-> "Primary Office" ]

\* Enum(value): the lookup of a member by its value
EnumByValue(enum, v) ==
    IF \E n \in DOMAIN enum : enum[n] = v
    THEN Return(v)
    ELSE Raise("ValueError", "value is not a valid enumeration member")

\* ----------------------------------------------------------- PersonIdBlock
HttpPrefix == <<"h", "t", "t", "p", ":", "/", "/">>
HttpsPrefix == <<"h", "t", "t", "p", "s", ":", "/", "/">>
AtPrefix == <<"@">>

\* mutant: the "@" prefix is not checked
validate_social_without_at(val) ==
    LET r == validate_str_no_newline(val)
    IN  IF r.exc # "none" THEN r
        ELSE IF \E p \in {HttpPrefix, HttpsPrefix} : StartsWith(val, p)
        THEN Raise("ValueError", "invalid social media account name, drop URL or @")
        ELSE Return(val)

validate_social(val) ==
    LET r == validate_str_no_newline(val)
    IN  IF r.exc # "none" THEN r
        ELSE IF \E p \in {HttpPrefix, HttpsPrefix, AtPrefix} : StartsWith(val, p)
        THEN Raise("ValueError", "invalid social media account name, drop URL or @")
        ELSE Return(val)

\* ---------------------------------------------------------------- SUFFIX_RE
LowerMap ==
    [ A |-> "a", B |-> "b", C |-> "c", D |-> "d", E |-> "e", F |-> "f", G |-> "g",
      H |-> "h", I |-> "i", J |-> "j", K |-> "k", L |-> "l", M |-> "m", N |-> "n",
      O |-> "o", P |-> "p", Q |-> "q", R |-> "r", S |-> "s", T |-> "t", U |-> "u",
      V |-> "v", W |-> "w", X |-> "x", Y |-> "y", Z |-> "z" ]

\* re.I: letters are compared without regard to case
Lower(c) == IF c \in DOMAIN LowerMap THEN LowerMap[c] ELSE c

HasAtI(s, i, lit) ==
    /\ i >= 1
    /\ i + Len(lit) - 1 <= Len(s)
    /\ \A k \in 1..Len(lit) : Lower(s[i + k - 1]) = lit[k]

\* the lengths an optional literal (`x?`) can take at position i
OptAt(s, i, lit) == {0} \cup (IF HasAtI(s, i, lit) THEN {Len(lit)} ELSE {})

\* the lengths of the matches of SUFFIX_RE that start at position i
SuffixMatchLens(s, i) ==
    \* (iii?)
    { 2 + n : n \in IF HasAtI(s, i, <<"i", "i">>) THEN OptAt(s, i + 2, <<"i">>) ELSE {} }
    \cup
    \* (i?v)
    { n + 1 : n \in { k \in OptAt(s, i, <<"i">>) : HasAtI(s, i + k, <<"v">>) } }
    \cup
    \* ((ed|ph|m|o)\.?d\.?)
    UNION { UNION { { Len(pre) + d1 + 1 + d2 : d2 \in OptAt(s, i + Len(pre) + d1 + 1, <<".">>) }
                    : d1 \in { k \in OptAt(s, i + Len(pre), <<".">>) :
                                 HasAtI(s, i + Len(pre) + k, <<"d">>) } }
            : pre \in { q \in {<<"e", "d">>, <<"p", "h">>, <<"m">>, <<"o">>} : HasAtI(s, i, q) } }
    \cup
    \* ([sj]r\.?)
    { 2 + n : n \in IF \E c \in {"s", "j"} : HasAtI(s, i, <<c, "r">>)
                    THEN OptAt(s, i + 2, <<".">>) ELSE {} }
    \cup
    \* (esq\.?)
    { 3 + n : n \in IF HasAtI(s, i, <<"e", "s", "q">>) THEN OptAt(s, i + 3, <<".">>) ELSE {} }

\* SUFFIX_RE.findall(s) is not empty: the pattern matches somewhere in s
SUFFIX_RE_findall(s) == \E i \in 1..Len(s) : SuffixMatchLens(s, i) # {}

\* str.split(c)
RECURSIVE Split(_, _)
Split(s, c) ==
    IF ~Contains(s, c) THEN <<s>>
    ELSE LET i == CHOOSE j \in 1..Len(s) : s[j] = c /\ \A k \in 1..(j - 1) : s[k] # c
         IN  <<SubSeq(s, 1, i - 1)>> \o Split(SubSeq(s, i + 1, Len(s)), c)

no_bad_comma(val) ==
    LET pieces == Split(val, ",")
    IN  IF Len(pieces) > 2
        THEN Raise("ValueError", "too many commas, check if name is mangled")
        ELSE IF Len(pieces) = 2 /\ ~SUFFIX_RE_findall(pieces[2])
        THEN Raise("ValueError", "invalid comma")
        ELSE Return(val)

\* ----------------------------------------------------------------- Role
ExecutiveOfficeNames == <<"GOVERNOR", "LT_GOVERNOR", "MAYOR", "CHIEF_ELECTION_OFFICER", "SOS">>

\* The tuple of OfficeType members is built before the membership test: an
\* attribute that OfficeType does not have raises AttributeError.
check_executives_have_end_date(values) ==
    LET missing == { i \in 1..Len(ExecutiveOfficeNames) :
                       ExecutiveOfficeNames[i] \notin DOMAIN OfficeType }
        executive == { OfficeType[ExecutiveOfficeNames[i]] : i \in 1..Len(ExecutiveOfficeNames) }
        office_type_in == "type" \in DOMAIN values /\ values["type"] \in executive
        end_date_empty == "end_date" \notin DOMAIN values \/ values["end_date"] = <<>>
    IN  IF missing # {}
        THEN Raise("AttributeError", ExecutiveOfficeNames[CHOOSE i \in missing : \A j \in missing : i <= j])
        ELSE IF office_type_in /\ end_date_empty
        THEN Raise("ValueError", "end_date is required for executive roles")
        ELSE Return(values)

\* ------------------------------------------------------- record schemas
\* The declared fields of each record type, in declaration order (inherited
\* fields first).  kind: "str", an enumeration, or a nested record type.
F(name, kind, required) == [name |-> name, kind |-> kind, required |-> required]

TimeScopedFields == <<F("start_date", "str", FALSE), F("end_date", "str", FALSE)>>

PersonIdBlockFields ==
    <<F("twitter", "str", FALSE), F("youtube", "str", FALSE),
      F("instagram", "str", FALSE), F("facebook", "str", FALSE)>>

PartyFields == TimeScopedFields \o <<F("name", "str", TRUE)>>

RoleFields ==
    TimeScopedFields \o
    <<F("type", "RoleType", TRUE), F("district", "str", TRUE),
      F("jurisdiction", "str", TRUE), F("end_reason", "str", TRUE)>>

ContactDetailFields ==
    <<F("note", "OfficeType", TRUE), F("address", "str", FALSE),
      F("voice", "str", FALSE), F("fax", "str", FALSE)>>

\* mutant: roles has a default
PersonFieldsRolesOptional ==
    <<F("id", "str", TRUE), F("name", "str", TRUE), F("given_name", "str", FALSE),
      F("family_name", "str", FALSE), F("middle_name", "str", FALSE),
      F("suffix", "str", FALSE), F("gender", "str", FALSE), F("email", "str", FALSE),
      F("biography", "str", FALSE), F("birth_date", "str", FALSE),
      F("death_date", "str", FALSE),
      F("party", "list:Party", TRUE), F("roles", "list:Role", FALSE),
      F("contact_details", "list:ContactDetail", FALSE),
      F("ids", "PersonIdBlock", FALSE)>>

\* (image, links, other_names, other_identifiers, sources and extras are left
\* out: their types and validators are those of common.py, they have defaults,
\* and an input that does not supply them does not run them)
PersonFields ==
    <<F("id", "str", TRUE), F("name", "str", TRUE), F("given_name", "str", FALSE),
      F("family_name", "str", FALSE), F("middle_name", "str", FALSE),
      F("suffix", "str", FALSE), F("gender", "str", FALSE), F("email", "str", FALSE),
      F("biography", "str", FALSE), F("birth_date", "str", FALSE),
      F("death_date", "str", FALSE),
      F("party", "list:Party", TRUE), F("roles", "list:Role", TRUE),
      F("contact_details", "list:ContactDetail", FALSE),
      F("ids", "PersonIdBlock", FALSE)>>

Fields(sch) ==
    CASE sch = "PersonIdBlock" -> PersonIdBlockFields
      [] sch = "Party" -> PartyFields
      [] sch = "Role" -> RoleFields
      [] sch = "ContactDetail" -> ContactDetailFields
      [] sch = "Person" -> PersonFields

\* mutant: email is left out of the list
PersonNoNewlineFieldsWithoutEmail ==
    {"name", "given_name", "family_name", "given_name", "middle_name", "suffix", "gender"}

\* the fields of Person that _validate_strings_no_newline is attached to
PersonNoNewlineFields ==
    {"name", "given_name", "family_name", "given_name", "middle_name", "email",
     "suffix", "gender"}

\* mutant: the no-newline validator is defined before no_bad_comma
PersonNameValidatorsNewlineFirst == <<"validate_str_no_newline", "no_bad_comma">>

\* the validators of Person.name, in the order of their definition in the class
PersonNameValidators == <<"no_bad_comma", "validate_str_no_newline">>

\* The validators attached to a field, in the order in which they run.
FieldValidators(sch, name) ==
    CASE sch = "PersonIdBlock" -> <<"validate_social">>
      [] sch \in {"Party", "Role"} /\ name \in {"start_date", "end_date"} -> <<"validate_fuzzy_date">>
      [] sch = "Party" /\ name = "name" -> <<"validate_str_no_newline">>
      [] sch = "Role" /\ name \in {"district", "end_reason"} -> <<"validate_str_no_newline">>
      [] sch = "Role" /\ name = "jurisdiction" -> <<"validate_ocd_jurisdiction">>
      [] sch = "ContactDetail" /\ name = "address" -> <<"validate_str_no_newline">>
      [] sch = "ContactDetail" /\ name \in {"voice", "fax"} -> <<"validate_phone">>
      [] sch = "Person" /\ name = "id" -> <<"validate_ocd_person">>
      [] sch = "Person" /\ name = "name" ->
            SelectSeq(PersonNameValidators,
                      LAMBDA v : v # "validate_str_no_newline" \/ "name" \in PersonNoNewlineFields)
      [] sch = "Person" /\ name \in {"birth_date", "death_date"} -> <<"validate_fuzzy_date">>
      [] sch = "Person" /\ name \in PersonNoNewlineFields -> <<"validate_str_no_newline">>
      [] OTHER -> <<>>

\* The root validators of a record type: [rule, skip_on_failure].
RootValidators(sch) ==
    IF sch = "Role"
    THEN <<[rule |-> "check_executives_have_end_date", skip_on_failure |-> FALSE]>>
    ELSE <<>>

RunValidator(rule, v) ==
    CASE rule = "validate_str_no_newline" -> validate_str_no_newline(v)
      [] rule = "validate_fuzzy_date" -> validate_fuzzy_date(v)
      [] rule = "validate_ocd_jurisdiction" -> validate_ocd_jurisdiction(v)
      [] rule = "validate_ocd_person" -> validate_ocd_person(v)
      [] rule = "validate_phone" -> validate_phone(v)
      [] rule = "validate_social" -> validate_social(v)
      [] rule = "no_bad_comma" -> no_bad_comma(v)
      [] rule = "check_executives_have_end_date" -> check_executives_have_end_date(v)

\* ------------------------------------------------- validation of a record
\* (the model's construction from raw input, as the field and root
\* validator declarations of the classes determine it)
EmptyRecord == [k \in {} |-> k]

Error(loc, msg) == [loc |-> loc, msg |-> msg]
Step(loc, rule) == [loc |-> loc, rule |-> rule]

\* errors and trace entries of a nested record, located under prefix
Under(prefix, entries) == [i \in 1..Len(entries) |-> [entries[i] EXCEPT !.loc = prefix \o @]]

FieldResult(ok, val, errors, trace, exc) ==
    [ok |-> ok, val |-> val, errors |-> errors, trace |-> trace, exc |-> exc]

\* the default of a field that is not supplied: "" for a text, [] for a list
\* (and the absent PersonIdBlock), all of them the empty sequence
Default(kind) == <<>>

RECURSIVE ApplyValidators(_, _, _)
RECURSIVE ValidateModel(_, _)
RECURSIVE ValidateList(_, _, _, _)
RECURSIVE ValidateFields(_, _, _, _)
RECURSIVE RunRootValidators(_, _)

\* The validators of one field run in order on a supplied value; the first
\* one that raises ends the field.
ApplyNext(r, rules, name) ==
    IF r.exc # "none" THEN [r |-> r, trace |-> <<>>]
    ELSE ApplyValidators(rules, r.val, name)

Traced(step, a) == [r |-> a.r, trace |-> <<step>> \o a.trace]

ApplyValidators(rules, v, name) ==
    IF rules = <<>> THEN [r |-> Return(v), trace |-> <<>>]
    ELSE Traced(Step(<<name>>, Head(rules)),
                ApplyNext(RunValidator(Head(rules), v), Tail(rules), name))

\* the result of a field from the result of its validators
FromValidators(name, a) ==
    IF a.r.exc = "none"
    THEN FieldResult(TRUE, a.r.val, <<>>, a.trace, "none")
    ELSE FieldResult(FALSE, <<>>, <<Error(<<name>>, a.r.msg)>>, a.trace, "none")

\* the result of a field from the conversion of its value to an enumeration
FromEnum(name, r) ==
    IF r.exc = "none"
    THEN FieldResult(TRUE, r.val, <<>>, <<>>, "none")
    ELSE FieldResult(FALSE, <<>>, <<Error(<<name>>, r.msg)>>, <<>>, "none")

\* the result of a field that holds one nested record
FromNested(loc, one) ==
    FieldResult(one.kind = "valid", one.values, Under(loc, one.errors), Under(loc, one.trace),
                IF one.kind \in {"valid", "ValidationError"} THEN "none" ELSE one.kind)

\* an element's result followed by the results of the elements after it
Cons(one, rest) ==
    IF one.exc # "none" THEN one
    ELSE FieldResult(one.ok /\ rest.ok,
                     IF one.ok /\ rest.ok THEN <<one.val>> \o rest.val ELSE <<>>,
                     one.errors \o rest.errors, one.trace \o rest.trace, rest.exc)

\* the elements of a list of nested records, validated in order from index idx;
\* an exception that is not a validation error ends the list
ListRest(one, elem, items, name, idx) ==
    IF one.exc # "none" THEN one
    ELSE Cons(one, ValidateList(elem, items, name, idx))

ValidateList(elem, items, name, idx) ==
    IF items = <<>> THEN FieldResult(TRUE, <<>>, <<>>, <<>>, "none")
    ELSE ListRest(FromNested(<<name, ToString(idx)>>, ValidateModel(elem, Head(items))),
                  elem, Tail(items), name, idx + 1)

\* One field: a required field that is not supplied is an error; a default
\* is taken without running the validators; a supplied value is converted to
\* the field's type and then given to the field's validators.
ValidateField(sch, f, input) ==
    IF f.name \notin DOMAIN input
    THEN IF f.required
         THEN FieldResult(FALSE, <<>>, <<Error(<<f.name>>, "field required")>>, <<>>, "none")
         ELSE FieldResult(TRUE, Default(f.kind), <<>>, <<>>, "none")
    ELSE CASE f.kind = "RoleType" -> FromEnum(f.name, EnumByValue(RoleType, input[f.name]))
           [] f.kind = "OfficeType" -> FromEnum(f.name, EnumByValue(OfficeType, input[f.name]))
           [] f.kind = "list:Party" -> ValidateList("Party", input[f.name], f.name, 0)
           [] f.kind = "list:Role" -> ValidateList("Role", input[f.name], f.name, 0)
           [] f.kind = "list:ContactDetail" ->
                ValidateList("ContactDetail", input[f.name], f.name, 0)
           [] f.kind = "PersonIdBlock" ->
                FromNested(<<f.name>>, ValidateModel("PersonIdBlock", input[f.name]))
           [] OTHER ->
                FromValidators(f.name,
                    ApplyValidators(FieldValidators(sch, f.name), input[f.name], f.name))

\* the state of a validation after one more field
Collect(acc, name, one) ==
    [values |-> IF one.ok THEN acc.values @@ (name :> one.val) ELSE acc.values,
     errors |-> acc.errors \o one.errors,
     trace |-> acc.trace \o one.trace,
     exc |-> one.exc]

\* mutant: the fields after the first one that failed are not validated
FieldsRestFailFast(acc, sch, fields, input) ==
    IF acc.exc # "none" \/ acc.errors # <<>> THEN acc
    ELSE ValidateFields(sch, fields, input, acc)

\* All the fields, in order; every field is validated whether or not an
\* earlier one failed.  An exception that is not a validation error ends it.
FieldsRest(acc, sch, fields, input) ==
    IF acc.exc # "none" THEN acc ELSE ValidateFields(sch, fields, input, acc)

ValidateFields(sch, fields, input, acc) ==
    IF fields = <<>> THEN acc
    ELSE FieldsRest(Collect(acc, Head(fields).name, ValidateField(sch, Head(fields), input)),
                    sch, Tail(fields), input)

\* the state of a validation after one root validator returned or raised r:
\* ValueError is collected as an error of the record, anything else escapes
AfterRoot(acc, rule, r) ==
    CASE r.exc = "none" ->
           [acc EXCEPT !.values = r.val, !.trace = @ \o <<Step(<<"__root__">>, rule)>>]
      [] r.exc = "ValueError" ->
           [acc EXCEPT !.errors = @ \o <<Error(<<"__root__">>, r.msg)>>,
                       !.trace = @ \o <<Step(<<"__root__">>, rule)>>]
      [] OTHER ->
           [acc EXCEPT !.exc = r.exc, !.trace = @ \o <<Step(<<"__root__">>, rule)>>]

\* The root validators run after the fields, on the values of the fields that
\* passed; one declared with skip_on_failure is skipped when a field failed.
RunRootValidators(roots, acc) ==
    IF roots = <<>> \/ acc.exc # "none" THEN acc
    ELSE IF Head(roots).skip_on_failure /\ acc.errors # <<>>
    THEN RunRootValidators(Tail(roots), acc)
    ELSE RunRootValidators(Tail(roots),
             AfterRoot(acc, Head(roots).rule, RunValidator(Head(roots).rule, acc.values)))

Outcome(kind, values, errors, trace) ==
    [kind |-> kind, values |-> values, errors |-> errors, trace |-> trace]

\* a validated record, a report of the errors, or the exception that escaped
Finish(done) ==
    IF done.exc # "none" THEN Outcome(done.exc, EmptyRecord, <<>>, done.trace)
    ELSE IF done.errors # <<>>
    THEN Outcome("ValidationError", EmptyRecord, done.errors, done.trace)
    ELSE Outcome("valid", done.values, <<>>, done.trace)

ValidateModel(sch, input) ==
    Finish(RunRootValidators(RootValidators(sch),
               ValidateFields(sch, Fields(sch), input,
                   [values |-> EmptyRecord, errors |-> <<>>, trace |-> <<>>, exc |-> "none"])))

\* ---------------------------------------------------------------- inputs
\* an optional key: <<>> when the key is not supplied, <<v>> when it is
Opt(S) == {<<>>} \cup { <<v>> : v \in S }

\* the raw record that supplies exactly the keys whose option is not empty
FromOptions(opts) == [k \in { x \in DOMAIN opts : Len(opts[x]) > 0 } |-> opts[k][1]]

RECURSIVE Rep(_, _)
Rep(c, n) == IF n = 0 THEN <<>> ELSE <<c>> \o Rep(c, n - 1)

RECURSIVE SeqsUpTo(_, _)
SeqsUpTo(S, n) ==
    IF n = 0 THEN {<<>>}
    ELSE LET shorter == SeqsUpTo(S, n - 1)
         IN  shorter \cup { <<x>> \o t : x \in S, t \in { u \in shorter : Len(u) = n - 1 } }

PhonePrefixes == { <<>>,
                 <<"1", "-">>,
                 <<"2", "-">> }
PhoneCores ==
    { <<"5", "5", "5", "-", "1", "2", "3", "-", "4", "5", "6", "7">>,
      <<"5", "5", "5", "-", "1", "2", "3", "4">>,
      <<"5", "5", "5", "-", "1", "2", "3", "-", "4", "5", "6", "7", "8">>,
      <<"5", "5", "a", "-", "1", "2", "3", "-", "4", "5", "6", "7">> }
PhoneExtSeparators == { <<".">>,
                      <<"x">>,
                      <<"\n">>,
                      <<>> }
PhoneExts ==
    {<<>>} \cup { <<" ", "e", "x", "t">> \o sep \o <<" ">> \o Rep("1", n) \o Rep("2", m) :
                    sep \in PhoneExtSeparators, n \in 0..1, m \in 0..(MaxExtDigits - 1) }
PhoneTails == { <<>>,
              <<"\n">>,
              <<"x">>,
              <<"\n", "\n">> }
PhoneInputs ==
    {<<>>} \cup { p \o c \o e \o t :
                    p \in PhonePrefixes, c \in PhoneCores, e \in PhoneExts, t \in PhoneTails }

SocialPrefixes ==
    { <<>>,
      <<"@">>,
      <<"h", "t", "t", "p", ":", "/", "/">>,
      <<"h", "t", "t", "p", "s", ":", "/", "/">>,
      <<"h", "t", "t", "p", ":", "/">>,
      <<"h">>,
      <<"a", "@">>,
      <<"H", "T", "T", "P", ":", "/", "/">> }
SocialBodies ==
    { <<>>,
      <<"j", "d", "o", "e">>,
      <<"j", "\n", "d">>,
      <<"j", "\r", "d">>,
      <<"@">>,
      <<"x", " ", "h", "t", "t", "p", "s", ":", "/", "/">> }
SocialInputs == { p \o b : p \in SocialPrefixes, b \in SocialBodies }

SocialFields == {"twitter", "youtube", "instagram", "facebook"}

\* one handle with any of the values, and possibly a second one
PersonIdBlockInputs ==
    {EmptyRecord} \cup
    { [k \in {f} \cup G |-> IF k = f THEN v ELSE w] :
        f \in SocialFields, v \in SocialInputs,
        G \in { X \in SUBSET SocialFields : Cardinality(X) <= 1 },
        w \in { <<"j", "d", "o", "e">>, <<"@", "j", "d", "o", "e">> } }

DateInputs == { <<>>,
               <<"2", "0", "2", "4", "-", "0", "1", "-", "0", "1">>,
               <<"2", "0", "2", "4", "/", "0", "1">> }
RoleTypeInputs == { RoleType[n] : n \in DOMAIN RoleType } \cup {"President"}
DistrictInputs == { <<"1">>,
                   <<"1", "\n">> }
JurisdictionInputs == { <<"o", "c", "d", "-", "j", "/", "u", "s">>,
                       <<"u", "s">> }
EndReasonInputs == { <<>>,
                    <<"x", "\r">> }

RoleInputs ==
    { FromOptions([type |-> t, district |-> <<d>>, jurisdiction |-> <<j>>,
                   end_reason |-> r, end_date |-> e]) :
        t \in Opt(RoleTypeInputs), d \in DistrictInputs, j \in JurisdictionInputs,
        r \in Opt(EndReasonInputs), e \in Opt(DateInputs) }

ContactVoiceInputs ==
    { <<>>,
      <<"5", "5", "5", "-", "1", "2", "3", "-", "4", "5", "6", "7">>,
      <<"1", "-", "5", "5", "5", "-", "1", "2", "3", "-", "4", "5", "6", "7", " ", "e", "x", "t", ".", " ", "1", "2">>,
      <<"5", "5", "5", "-", "1", "2", "3", "4">>,
      <<"5", "5", "5", "-", "1", "2", "3", "-", "4", "5", "6", "7", "\n">>,
      <<"5", "5", "5", "-", "1", "2", "3", "-", "4", "5", "6", "7", " ", "e", "x", "t", "_", " ", "1">> }
ContactFaxInputs == { <<>>,
                     <<"5", "5", "5", "-", "1", "2", "3", "-", "4", "5", "6", "7">>,
                     <<"f", "a", "x">> }
AddressInputs == { <<"1", " ", "M", "a", "i", "n", " ", "S", "t">>,
                  <<"1", " ", "M", "a", "i", "n", "\n", "S", "t">> }

ContactDetailInputs ==
    { FromOptions([note |-> n, address |-> a, voice |-> v, fax |-> f]) :
        n \in Opt({OfficeType.CAPITOL, OfficeType.DISTRICT, RoleType.GOVERNOR}),
        a \in Opt(AddressInputs), v \in Opt(ContactVoiceInputs), f \in Opt(ContactFaxInputs) }

Surname == <<"S", "m", "i", "t", "h">>
NameTails ==
    { <<>>,
      <<",", " ", "J", "r", ".">>,
      <<",", " ", "I", "I", "I">>,
      <<",", " ", "B", "o", "b">>,
      <<",", " ", "D", "a", "v", "i", "d">>,
      <<",", " ", "J", "o", "n", "e", "s", ",", " ", "I", "I", "I">>,
      <<"\n", "J">>,
      <<",", " ", "J", "o", "n", "e", "s", ",", " ", "I", "\n", "I">>,
      <<",", " ", "J", "r", ".", "\r">>,
      <<",", " ", "B", "o", "b", "\n">> }
NameInputs == { Surname \o t : t \in NameTails }

\* the texts after the comma that no_bad_comma is called with directly
CommaTails ==
    { <<" ", "J", "r", ".">>,
      <<"J", "r">>,
      <<" ", "s", "r">>,
      <<" ", "I", "I">>,
      <<" ", "i", "i", "i">>,
      <<" ", "I", "V">>,
      <<" ", "v">>,
      <<" ", "E", "d", ".", "D">>,
      <<" ", "P", "h", "D">>,
      <<" ", "P", "h", ".", "D", ".">>,
      <<" ", "M", "D">>,
      <<" ", "O", "D">>,
      <<" ", "E", "s", "q", ".">>,
      <<" ", "e", "s", "q">>,
      <<" ", "B", "o", "b">>,
      <<" ", "D", "a", "v", "i", "d">>,
      <<" ", "T", "o", "d", "d">>,
      <<" ", "J", "i", "m">>,
      <<" ", "M", "a", "r", "i", "a">>,
      <<>>,
      <<" ">>,
      <<" ", "J", "r", ".", " ", "x">>,
      <<" ", "M", "r">>,
      <<",", " ", "I", "I", "I">>,
      <<" ", "J", "r", ",", " ", "S", "r">>,
      <<"\n">>,
      <<" ", "D", "r", ".">> }
CommaNameInputs ==
    { Surname } \cup { Surname \o <<",">> \o t : t \in CommaTails }

PersonIdInputs == { <<"o", "c", "d", "-", "p", "/", "1">>,
                   <<"p", "1">> }
PersonTextFields == {"given_name", "family_name", "middle_name", "suffix", "gender", "email"}
PersonTextInputs == { <<"J", "o">>,
                     <<"J", "o", "\n", "A", "n", "n">>,
                     <<"J", "o", "\r", "A", "n", "n">> }
BiographyInputs == { <<"b", "i", "o", "\n", "l", "i", "n", "e">> }

PartySamples == { [name |-> <<"D", "e", "m", "o", "c", "r", "a", "t", "i", "c">>] }

RoleSamples ==
    { [type |-> RoleType.UPPER, district |-> <<"1">>, jurisdiction |-> <<"o", "c", "d", "-", "j", "/", "u", "s">>,
       end_reason |-> <<>>],
      [type |-> RoleType.LOWER, district |-> <<"1", LF>>, jurisdiction |-> <<"o", "c", "d", "-", "j", "/", "u", "s">>,
       end_reason |-> <<>>] }

\* the nested records of a Person that are neither party nor roles
PersonExtras ==
    { EmptyRecord,
      [ids |-> [twitter |-> <<"@", "j", "d", "o", "e">>]],
      [contact_details |-> <<[note |-> OfficeType.CAPITOL, voice |-> <<"5", "5", "5", "-", "1", "2", "3", "4">>]>>] }

\* a Person: id, name, at most one of the other text fields, biography,
\* party, roles and at most one other nested record
PersonInputs ==
    { FromOptions([id |-> <<i>>, name |-> <<n>>, biography |-> b, party |-> p, roles |-> r])
        @@ [k \in T |-> v] @@ x :
        i \in PersonIdInputs, n \in NameInputs, b \in Opt(BiographyInputs),
        p \in Opt(SeqsUpTo(PartySamples, 1)), r \in Opt(SeqsUpTo(RoleSamples, MaxRoles)),
        T \in { X \in SUBSET PersonTextFields : Cardinality(X) <= 1 },
        v \in PersonTextInputs, x \in PersonExtras }

\* ------------------------------------------------------------ state machine
NoResult == [kind |-> "none"]

\* A caller holds a raw input for one of the record types (or a value for one
\* of the two validators that are also called on their own).
Init ==
    /\ pc = "raw"
    /\ result = NoResult
    /\ \/ schema = "Role" /\ raw \in RoleInputs
       \/ schema = "Person" /\ raw \in PersonInputs
       \/ schema = "ContactDetail" /\ raw \in ContactDetailInputs
       \/ schema = "PersonIdBlock" /\ raw \in PersonIdBlockInputs
       \/ schema = "validate_phone" /\ raw \in PhoneInputs
       \/ schema = "no_bad_comma" /\ raw \in CommaNameInputs

\* Role(**raw)
ValidateRole ==
    /\ pc = "raw"
    /\ schema = "Role"
    /\ result' = ValidateModel("Role", raw)
    /\ pc' = "done"
    /\ UNCHANGED <<schema, raw>>

\* Person(**raw)
ValidatePerson ==
    /\ pc = "raw"
    /\ schema = "Person"
    /\ result' = ValidateModel("Person", raw)
    /\ pc' = "done"
    /\ UNCHANGED <<schema, raw>>

\* ContactDetail(**raw)
ValidateContactDetail ==
    /\ pc = "raw"
    /\ schema = "ContactDetail"
    /\ result' = ValidateModel("ContactDetail", raw)
    /\ pc' = "done"
    /\ UNCHANGED <<schema, raw>>

\* PersonIdBlock(**raw)
ValidatePersonIdBlock ==
    /\ pc = "raw"
    /\ schema = "PersonIdBlock"
    /\ result' = ValidateModel("PersonIdBlock", raw)
    /\ pc' = "done"
    /\ UNCHANGED <<schema, raw>>

CallValidatePhone ==
    /\ pc = "raw"
    /\ schema = "validate_phone"
    /\ result' = validate_phone(raw)
    /\ pc' = "done"
    /\ UNCHANGED <<schema, raw>>

CallNoBadComma ==
    /\ pc = "raw"
    /\ schema = "no_bad_comma"
    /\ result' = no_bad_comma(raw)
    /\ pc' = "done"
    /\ UNCHANGED <<schema, raw>>

Next ==
    \/ ValidateRole
    \/ ValidatePerson
    \/ ValidateContactDetail
    \/ ValidatePersonIdBlock
    \/ CallValidatePhone
    \/ CallNoBadComma

Spec == Init /\ [][Next]_vars

\* ------------------------------------------------------------ properties
Done(sch) == pc = "done" /\ schema = sch

HasNewline(s) == Contains(s, LF) \/ Contains(s, CR)

Supplied(k) == k \in DOMAIN raw

\* the report holds an error with this location and message
Reported(loc, msg) ==
    \E i \in 1..Len(result.errors) : result.errors[i].loc = loc /\ result.errors[i].msg = msg

\* the number of errors the report holds for this location
ErrorsAt(loc) == Cardinality({ i \in 1..Len(result.errors) : result.errors[i].loc = loc })

\* the positions of the trace at which this rule was evaluated on this location
StepsOf(loc, rule) ==
    { i \in 1..Len(result.trace) : result.trace[i].loc = loc /\ result.trace[i].rule = rule }

ExecutiveTypes ==
    { RoleType.GOVERNOR, RoleType.LT_GOVERNOR, RoleType.MAYOR, RoleType.SOS,
      RoleType.CHIEF_ELECTION_OFFICER }

\* every field of the raw Role is valid on its own
RoleFieldsValid ==
    /\ Supplied("type") /\ raw["type"] \in { RoleType[n] : n \in DOMAIN RoleType }
    /\ Supplied("district") /\ ~HasNewline(raw["district"])
    /\ Supplied("jurisdiction") /\ validate_ocd_jurisdiction(raw["jurisdiction"]).exc = "none"
    /\ Supplied("end_reason") /\ ~HasNewline(raw["end_reason"])
    /\ Supplied("end_date") => validate_fuzzy_date(raw["end_date"]).exc = "none"

EndDateMissing == ~Supplied("end_date") \/ raw["end_date"] = <<>>

\* C1: a Role whose fields are each valid is rejected with "end_date is
\* required for executive roles" exactly when its type is one of the five
\* executive types and its end_date is absent or empty, and is accepted in
\* every other case.
C1_ExecutiveEndDateRule ==
    (Done("Role") /\ RoleFieldsValid) =>
        IF raw["type"] \in ExecutiveTypes /\ EndDateMissing
        THEN /\ result.kind = "ValidationError"
             /\ Reported(<<"__root__">>, "end_date is required for executive roles")
        ELSE result.kind = "valid"

\* C2: the validation of a Role or of a Person ends in a validated record or
\* in a report of validation errors, and in no other failure.
C2_OnlyValidationErrors ==
    (pc = "done" /\ schema \in {"Role", "Person"}) =>
        result.kind \in {"valid", "ValidationError"}

PhoneOk(k) == ~Supplied(k) \/ raw[k] = <<>> \/ PHONE_RE_match(raw[k])

\* C4: a ContactDetail whose voice or fax is the empty string is accepted
\* like one that omits it (every other field being valid).
C4_EmptyPhoneAccepted ==
    ( /\ Done("ContactDetail")
      /\ Supplied("note") /\ raw["note"] \in { OfficeType[n] : n \in DOMAIN OfficeType }
      /\ Supplied("address") => ~HasNewline(raw["address"])
      /\ PhoneOk("voice") /\ PhoneOk("fax")
      /\ \E k \in {"voice", "fax"} : Supplied(k) /\ raw[k] = <<>> )
    => result.kind = "valid"

\* the grammar of C5: optional "1-", DDD-DDD-DDDD, then optionally " ext. "
\* and one or more digits, and nothing else
PhoneGrammar(s) ==
    \E i \in {1, 3} :
        /\ i = 3 => HasAt(s, 1, <<"1", "-">>)
        /\ PhoneCoreAt(s, i)
        /\ \/ Len(s) = i + 11
           \/ /\ HasAt(s, i + 12, <<" ", "e", "x", "t", ".", " ">>)
              /\ Len(s) >= i + 18
              /\ DigitsAt(s, i + 18, Len(s) - (i + 17))

\* C5: validate_phone returns a non-empty value unchanged exactly when the
\* whole value is in the grammar, and raises "invalid phone number" otherwise.
C5_PhoneGrammar ==
    (Done("validate_phone") /\ raw # <<>>) =>
        IF PhoneGrammar(raw)
        THEN result.exc = "none" /\ result.val = raw
        ELSE result.exc = "ValueError" /\ result.msg = "invalid phone number"

\* str.strip() of blanks
RECURSIVE Strip(_)
Strip(s) ==
    IF s # <<>> /\ Head(s) = " " THEN Strip(Tail(s))
    ELSE IF s # <<>> /\ s[Len(s)] = " " THEN Strip(SubSeq(s, 1, Len(s) - 1))
    ELSE s

\* the text, without the blanks around it, is a suffix of the suffix grammar
IsSuffix(s) == Strip(s) # <<>> /\ Len(Strip(s)) \in SuffixMatchLens(Strip(s), 1)

Commas(s) == Cardinality({ i \in 1..Len(s) : s[i] = "," })

AfterComma(s) == Split(s, ",")[2]

\* C6: a name with one comma passes the comma rule exactly when the text after
\* the comma is a suffix; with more commas it fails with "too many commas";
\* with none it passes.
C6_CommaRule ==
    Done("no_bad_comma") =>
        CASE Commas(raw) = 0 -> result.exc = "none"
          [] Commas(raw) = 1 ->
                IF IsSuffix(AfterComma(raw)) THEN result.exc = "none"
                ELSE result.exc = "ValueError" /\ result.msg = "invalid comma"
          [] OTHER -> /\ result.exc = "ValueError"
                      /\ result.msg = "too many commas, check if name is mangled"

\* the top-level text fields of a Person that carry validators
PersonRuleFields == {"id", "name"} \cup PersonNoNewlineFields

\* the rules of a supplied field that the raw value violates, each rule taken
\* on its own
Violated(k) ==
    { i \in 1..Len(FieldValidators("Person", k)) :
        RunValidator(FieldValidators("Person", k)[i], raw[k]).exc # "none" }

MessageOf(k, i) == RunValidator(FieldValidators("Person", k)[i], raw[k]).msg

\* C7 as stated: the report of a rejected Person lists every rule that the raw
\* record violates, also when one field violates more than one of its rules.
C7_EveryViolationReported ==
    (Done("Person") /\ result.kind = "ValidationError") =>
        \A k \in PersonRuleFields \cap DOMAIN raw :
            \A i \in Violated(k) : Reported(<<k>>, MessageOf(k, i))

\* C7 as amended: the report of a rejected Person has an entry for every field
\* that violates one of its rules, so violations in different fields are all
\* reported, and for one field it holds exactly one entry, that of the first
\* rule the field violates in the order in which its rules run.
C7_FirstViolationOfEveryField ==
    (Done("Person") /\ result.kind = "ValidationError") =>
        \A k \in PersonRuleFields \cap DOMAIN raw :
            IF Violated(k) = {} THEN ErrorsAt(<<k>>) = 0
            ELSE /\ ErrorsAt(<<k>>) = 1
                 /\ Reported(<<k>>, MessageOf(k, CHOOSE i \in Violated(k) :
                                                    \A j \in Violated(k) : i <= j))

\* a name with too many commas and a newline, and another field with a newline
C7_Witness ==
    /\ Done("Person")
    /\ result.kind = "ValidationError"
    /\ Cardinality(Violated("name")) = 2
    /\ \E k \in (PersonNoNewlineFields \ {"name"}) \cap DOMAIN raw : Violated(k) # {}
    /\ ErrorsAt(<<"name">>) = 1

\* a bare handle: no newline, and no "http://", "https://" or "@" in front
BareHandle(v) ==
    /\ ~HasNewline(v)
    /\ ~StartsWith(v, <<"h", "t", "t", "p", ":", "/", "/">>)
    /\ ~StartsWith(v, <<"h", "t", "t", "p", "s", ":", "/", "/">>)
    /\ ~StartsWith(v, <<"@">>)

\* C8: each of twitter, youtube, instagram and facebook is accepted, and stored
\* unchanged, exactly when the supplied value is a bare handle; the empty
\* string is accepted.
C8_SocialHandles ==
    Done("PersonIdBlock") =>
        /\ DOMAIN raw \subseteq SocialFields
        /\ \A k \in DOMAIN raw : BareHandle(raw[k]) <=> ErrorsAt(<<k>>) = 0
        /\ result.kind = IF \A k \in DOMAIN raw : BareHandle(raw[k])
                         THEN "valid" ELSE "ValidationError"
        /\ result.kind = "valid" => \A k \in DOMAIN raw : result.values[k] = raw[k]
        /\ \A k \in DOMAIN raw : raw[k] = <<>> => ErrorsAt(<<k>>) = 0

\* "@jdoe" is rejected next to an accepted "jdoe"
C8_Witness ==
    /\ Done("PersonIdBlock")
    /\ \E k \in DOMAIN raw : raw[k] = <<"@", "j", "d", "o", "e">> /\ ErrorsAt(<<k>>) = 1
    /\ \E k \in DOMAIN raw : raw[k] = <<"j", "d", "o", "e">> /\ ErrorsAt(<<k>>) = 0

SevenFields ==
    {"name", "given_name", "family_name", "middle_name", "suffix", "gender", "email"}

WithoutKey(r, k) == [x \in (DOMAIN r) \ {k} |-> r[x]]

\* C9: no accepted Person holds a newline in name, given_name, family_name,
\* middle_name, suffix, gender or email: a supplied value with a newline in
\* one of them is not accepted; a newline in biography changes nothing.
C9_NoNewlineButBiography ==
    Done("Person") =>
        /\ \A k \in SevenFields \cap DOMAIN raw : HasNewline(raw[k]) => result.kind # "valid"
        /\ result.kind = "valid" => \A k \in SevenFields : ~HasNewline(result.values[k])
        /\ ErrorsAt(<<"biography">>) = 0
        /\ result.kind = ValidateModel("Person", WithoutKey(raw, "biography")).kind
        /\ (result.kind = "valid" /\ Supplied("biography")) =>
              result.values["biography"] = raw["biography"]

C9_Witness ==
    /\ Done("Person")
    /\ Supplied("biography") /\ HasNewline(raw["biography"])
    /\ result.kind = "valid"
    /\ \E k \in SevenFields \ {"name"} : Supplied(k)

\* a field of the raw Role fails its own rule
RoleFieldFails == ~RoleFieldsValid

\* C10 as stated: the executive end-date check is never evaluated for a Role
\* in which a field failed its own rule, and the name-comma check is never
\* evaluated on a name that fails the no-newline rule.
C10_CrossFieldRulesLast ==
    /\ (Done("Role") /\ RoleFieldFails) =>
          StepsOf(<<"__root__">>, "check_executives_have_end_date") = {}
    /\ (Done("Person") /\ HasNewline(raw["name"])) =>
          StepsOf(<<"name">>, "no_bad_comma") = {}

\* C10 as amended: the executive end-date check is evaluated once for every
\* Role, after the rules of its fields and whether or not a field failed; the
\* name-comma check is evaluated on every supplied name before the no-newline
\* rule, which is evaluated on the name only when the comma check passed.
C10_RootAlwaysCommaFirst ==
    /\ Done("Role") =>
          /\ Len(result.trace) > 0
          /\ StepsOf(<<"__root__">>, "check_executives_have_end_date") = {Len(result.trace)}
    /\ Done("Person") =>
          /\ Cardinality(StepsOf(<<"name">>, "no_bad_comma")) = 1
          /\ IF no_bad_comma(raw["name"]).exc = "none"
             THEN \E i \in StepsOf(<<"name">>, "no_bad_comma") :
                     StepsOf(<<"name">>, "validate_str_no_newline") = {i + 1}
             ELSE StepsOf(<<"name">>, "validate_str_no_newline") = {}

\* the end-date check evaluated on a Role whose district holds a newline
C10_Witness ==
    /\ Done("Role")
    /\ Supplied("district") /\ HasNewline(raw["district"])
    /\ StepsOf(<<"__root__">>, "check_executives_have_end_date") # {}

====
